---- MODULE Spec2Model ----
(***************************************************************************)
(* Model of insights_generator.py: load a CSV file, classify its columns,  *)
(* compute per-column statistics, missing-value counts and the most        *)
(* frequent value of the first non-numeric column, and write a text        *)
(* report.                                                                 *)
(*                                                                         *)
(* A cell is a sequence of one-character strings, so that str.strip() and  *)
(* float() are computed on the characters.  A Python dict is a sequence of *)
(* <<key, value>> pairs in insertion order.  An Optional is <<>> (None) or *)
(* <<x>>.  A record produced by csv.DictReader is                          *)
(*   [keys |-> header, vals |-> cells, rest |-> extra fields]              *)
(* where a non-empty rest is the list stored under the key None.           *)
(***************************************************************************)
EXTENDS Integers, Sequences, FiniteSets, TLC

VARIABLES pc, csv, outFile, outBefore, console, rows, numeric_cols,
          stats_map, cat_col, cat_top, missing, lines, call

vars == <<pc, csv, outFile, outBefore, console, rows, numeric_cols,
          stats_map, cat_col, cat_top, missing, lines, call>>

(***************************************************************************)
(* Bounds of the model.                                                    *)
(***************************************************************************)
\* total number of fields in the data rows of a file or dataset
MaxFields == 4

Whitespace == {" "}
Digits == {"1"}

\* cell strings of the function-level specification
Cells == {<<>>, <<" ">>, <<"1">>, <<"x">>, <<" ", "x">>}
\* cell strings of the files read by main
FileCells == {<<>>, <<"1">>, <<"x">>}
\* the content of a field beyond the header's width
ExtraCells == {<<"1">>}
\* header rows: column names are distinct, and may be the empty string
Headers == {<<"a">>, <<"">>, <<"a", "b">>, <<"", "a">>, <<"a", "">>}

None == <<>>
Some(x) == <<x>>
\* the key None under which csv.DictReader stores the extra fields of a row
NoneKey == "<None>"

(***************************************************************************)
(* Strings.                                                                *)
(***************************************************************************)
RECURSIVE lstrip(_)
lstrip(s) ==
    IF s # <<>> /\ Head(s) \in Whitespace THEN lstrip(Tail(s)) ELSE s

RECURSIVE rstrip(_)
rstrip(s) ==
    IF s # <<>> /\ s[Len(s)] \in Whitespace
    THEN rstrip(SubSeq(s, 1, Len(s) - 1))
    ELSE s

\* str.strip()
strip(s) == rstrip(lstrip(s))

\* float(v) succeeds: over the model's alphabet, a text that after removing
\* the surrounding whitespace is a non-empty run of digits
float_ok(v) ==
    LET t == strip(v)
    IN  t # <<>> /\ \A i \in 1..Len(t) : t[i] \in Digits

DigitVal(ch) == IF ch = "1" THEN 1 ELSE 0

RECURSIVE float_val(_)
float_val(t) ==
    IF t = <<>> THEN 0
    ELSE 10 * float_val(SubSeq(t, 1, Len(t) - 1)) + DigitVal(t[Len(t)])

(***************************************************************************)
(* Records.                                                                *)
(***************************************************************************)
\* r.keys()
Keys(r) == r.keys \o (IF r.rest # <<>> THEN <<NoneKey>> ELSE <<>>)

IndexOf(s, x) == CHOOSE i \in 1..Len(s) : s[i] = x

InSeq(s, x) == \E i \in 1..Len(s) : s[i] = x

\* r.get(c, ""): a string, or the list stored under None
Get(r, c) ==
    IF c = NoneKey
    THEN IF r.rest # <<>> THEN [t |-> "list", l |-> r.rest]
                          ELSE [t |-> "str", s |-> <<>>]
    ELSE IF InSeq(r.keys, c)
         THEN [t |-> "str", s |-> r.vals[IndexOf(r.keys, c)]]
         ELSE [t |-> "str", s |-> <<>>]

\* a result of a function: a value, or an exception raised
Ret(v) == [raised |-> FALSE, val |-> v]
Raise == [raised |-> TRUE, val |-> <<>>]

(***************************************************************************)
(* detect_numeric_columns                                                  *)
(***************************************************************************)
\* ColumnScan without the .strip() of the cell
RECURSIVE ColumnScan_NoStrip(_, _, _)
ColumnScan_NoStrip(rs, c, i) ==
    IF i > Len(rs) THEN "ok"
    ELSE LET g == Get(rs[i], c)
         IN  IF g.t = "list" THEN "raise"
             ELSE LET v == g.s
                  IN  IF v = <<>> THEN ColumnScan_NoStrip(rs, c, i + 1)
                      ELSE IF float_ok(v) THEN ColumnScan_NoStrip(rs, c, i + 1)
                      ELSE "bad"

\* the inner loop over the rows from row i on: "ok", "bad" (a cell failed
\* float()) or "raise" (.strip() of a list)
RECURSIVE ColumnScan(_, _, _)
ColumnScan(rs, c, i) ==
    IF i > Len(rs) THEN "ok"
    ELSE LET g == Get(rs[i], c)
         IN  IF g.t = "list" THEN "raise"
             ELSE LET v == strip(g.s)
                  IN  IF v = <<>> THEN ColumnScan(rs, c, i + 1)
                      ELSE IF float_ok(v) THEN ColumnScan(rs, c, i + 1)
                      ELSE "bad"

RECURSIVE DetectLoop(_, _, _, _)
DetectLoop(rs, cols, j, numeric) ==
    IF j > Len(cols) THEN Ret(numeric)
    ELSE LET ok == ColumnScan(rs, cols[j], 1)
         IN  IF ok = "raise" THEN Raise
             ELSE DetectLoop(rs, cols, j + 1,
                     IF ok = "ok" THEN Append(numeric, cols[j]) ELSE numeric)

detect_numeric_columns(rs) ==
    IF rs = <<>> THEN Ret(<<>>)
    ELSE DetectLoop(rs, Keys(rs[1]), 1, <<>>)

(***************************************************************************)
(* basic_stats                                                             *)
(***************************************************************************)
RECURSIVE StatsVals(_, _, _, _)
StatsVals(rs, col, i, vals) ==
    IF i > Len(rs) THEN Ret(vals)
    ELSE LET g == Get(rs[i], col)
         IN  IF g.t = "list" THEN Raise
             ELSE LET v == strip(g.s)
                  IN  IF v = <<>> THEN StatsVals(rs, col, i + 1, vals)
                      ELSE IF float_ok(v)
                           THEN StatsVals(rs, col, i + 1, Append(vals, float_val(v)))
                           ELSE StatsVals(rs, col, i + 1, vals)

RECURSIVE SumSeq(_)
SumSeq(s) == IF s = <<>> THEN 0 ELSE Head(s) + SumSeq(Tail(s))

MinSeq(s) == CHOOSE x \in {s[i] : i \in 1..Len(s)} : \A i \in 1..Len(s) : x <= s[i]
MaxSeq(s) == CHOOSE x \in {s[i] : i \in 1..Len(s)} : \A i \in 1..Len(s) : x >= s[i]

\* basic_stats with the number of rows as its count
basic_stats_RowCount(rs, col) ==
    LET vs == StatsVals(rs, col, 1, <<>>)
    IN  IF vs.raised THEN Raise
        ELSE IF vs.val = <<>> THEN Ret(None)
        ELSE Ret(Some([avg |-> <<SumSeq(vs.val), Len(vs.val)>>,
                       min |-> MinSeq(vs.val),
                       max |-> MaxSeq(vs.val),
                       count |-> Len(rs)]))

\* the average is kept as the fraction sum / count
basic_stats(rs, col) ==
    LET vs == StatsVals(rs, col, 1, <<>>)
    IN  IF vs.raised THEN Raise
        ELSE IF vs.val = <<>> THEN Ret(None)
        ELSE Ret(Some([avg |-> <<SumSeq(vs.val), Len(vs.val)>>,
                       min |-> MinSeq(vs.val),
                       max |-> MaxSeq(vs.val),
                       count |-> Len(vs.val)]))

(***************************************************************************)
(* missing_values                                                          *)
(***************************************************************************)
RECURSIVE MissingCount(_, _, _, _)
MissingCount(rs, c, i, cnt) ==
    IF i > Len(rs) THEN Ret(cnt)
    ELSE LET g == Get(rs[i], c)
         IN  IF g.t = "list" THEN Raise
             ELSE MissingCount(rs, c, i + 1,
                     IF strip(g.s) = <<>> THEN cnt + 1 ELSE cnt)

\* MissingLoop without the test cnt > 0
RECURSIVE MissingLoop_KeepZero(_, _, _, _)
MissingLoop_KeepZero(rs, cols, j, out) ==
    IF j > Len(cols) THEN Ret(out)
    ELSE LET cnt == MissingCount(rs, cols[j], 1, 0)
         IN  IF cnt.raised THEN Raise
             ELSE MissingLoop_KeepZero(rs, cols, j + 1,
                                       Append(out, <<cols[j], cnt.val>>))

RECURSIVE MissingLoop(_, _, _, _)
MissingLoop(rs, cols, j, out) ==
    IF j > Len(cols) THEN Ret(out)
    ELSE LET cnt == MissingCount(rs, cols[j], 1, 0)
         IN  IF cnt.raised THEN Raise
             ELSE MissingLoop(rs, cols, j + 1,
                     IF cnt.val > 0 THEN Append(out, <<cols[j], cnt.val>>) ELSE out)

missing_values(rs) ==
    IF rs = <<>> THEN Ret(<<>>)
    ELSE MissingLoop(rs, Keys(rs[1]), 1, <<>>)

(***************************************************************************)
(* first_categorical_column                                                *)
(***************************************************************************)
\* FirstNotIn with the membership test inverted
RECURSIVE FirstNotIn_Inverted(_, _, _)
FirstNotIn_Inverted(cols, numeric, j) ==
    IF j > Len(cols) THEN None
    ELSE IF InSeq(numeric, cols[j]) THEN Some(cols[j])
    ELSE FirstNotIn_Inverted(cols, numeric, j + 1)

RECURSIVE FirstNotIn(_, _, _)
FirstNotIn(cols, numeric, j) ==
    IF j > Len(cols) THEN None
    ELSE IF ~InSeq(numeric, cols[j]) THEN Some(cols[j])
    ELSE FirstNotIn(cols, numeric, j + 1)

first_categorical_column(rs, numeric) ==
    IF rs = <<>> THEN None
    ELSE FirstNotIn(Keys(rs[1]), numeric, 1)

(***************************************************************************)
(* most_frequent                                                           *)
(***************************************************************************)
DictHas(d, k) == \E i \in 1..Len(d) : d[i][1] = k

\* d.get(k, dflt)
DictGet(d, k, dflt) ==
    IF DictHas(d, k) THEN d[CHOOSE i \in 1..Len(d) : d[i][1] = k][2] ELSE dflt

\* d[k] = v: an existing key keeps its position, a new key goes last
DictSet(d, k, v) ==
    IF DictHas(d, k)
    THEN [i \in 1..Len(d) |-> IF d[i][1] = k THEN <<k, v>> ELSE d[i]]
    ELSE Append(d, <<k, v>>)

RECURSIVE FreqLoop(_, _, _, _)
FreqLoop(rs, col, i, freq) ==
    IF i > Len(rs) THEN Ret(freq)
    ELSE LET g == Get(rs[i], col)
         IN  IF g.t = "list" THEN Raise
             ELSE LET v == strip(g.s)
                  IN  IF v = <<>> THEN FreqLoop(rs, col, i + 1, freq)
                      ELSE FreqLoop(rs, col, i + 1,
                              DictSet(freq, v, DictGet(freq, v, 0) + 1))

\* ArgMax keeping the last maximum instead of the first
RECURSIVE ArgMax_Last(_, _, _)
ArgMax_Last(d, i, best) ==
    IF i > Len(d) THEN best
    ELSE ArgMax_Last(d, i + 1, IF d[i][2] >= d[best][2] THEN i ELSE best)

\* max(freq, key=freq.get): the first key, in iteration order, whose count
\* no later key exceeds and no earlier key reaches
RECURSIVE ArgMax(_, _, _)
ArgMax(d, i, best) ==
    IF i > Len(d) THEN best
    ELSE ArgMax(d, i + 1, IF d[i][2] > d[best][2] THEN i ELSE best)

most_frequent(rs, col) ==
    LET fr == FreqLoop(rs, col, 1, <<>>)
    IN  IF fr.raised THEN Raise
        ELSE IF fr.val = <<>> THEN Ret(None)
        ELSE LET k == ArgMax(fr.val, 2, 1)
             IN  Ret(Some(<<fr.val[k][1], fr.val[k][2]>>))

(***************************************************************************)
(* load_csv                                                                *)
(***************************************************************************)
\* one row of csv.DictReader: the header's keys with the row's fields, None
\* (here normalised to "") for the fields a short row lacks, and the fields
\* beyond the header collected in a list under the key None
DictRow(header, raw) ==
    [keys |-> header,
     vals |-> [i \in 1..Len(header) |-> IF i <= Len(raw) THEN raw[i] ELSE <<>>],
     rest |-> IF Len(raw) > Len(header)
              THEN SubSeq(raw, Len(header) + 1, Len(raw))
              ELSE <<>>]

\* csv.DictReader skips the rows without any field
RECURSIVE ReadRows(_, _, _, _)
ReadRows(header, data, i, out) ==
    IF i > Len(data) THEN out
    ELSE ReadRows(header, data, i + 1,
            IF data[i] = <<>> THEN out ELSE Append(out, DictRow(header, data[i])))

load_csv(file) == ReadRows(file.header, file.data, 1, <<>>)

(***************************************************************************)
(* write_report: the lines of the report                                   *)
(***************************************************************************)
Line(k, col, arg) == [k |-> k, col |-> col, arg |-> arg]

\* truth value of an Optional[str]: None and "" are false
TruthyStr(o) == o # None /\ o[1] # ""

RECURSIVE SummaryLines(_, _, _)
SummaryLines(numeric, stats, j) ==
    IF j > Len(numeric) THEN <<>>
    ELSE LET s == DictGet(stats, numeric[j], None)
         IN  (IF s = None THEN <<>>
              ELSE <<Line("summary", numeric[j],
                          <<s[1].avg, s[1].min, s[1].max, s[1].count>>)>>)
             \o SummaryLines(numeric, stats, j + 1)

MissingLines(miss) ==
    [i \in 1..Len(miss) |-> Line("missing", miss[i][1], <<miss[i][2]>>)]

ReportLines(file_name, rows_count, numeric, stats, ccol, ctop, miss) ==
    <<Line("title", "", <<>>), Line("divider", "", <<>>),
      Line("source", "", <<file_name>>), Line("total", "", <<rows_count>>),
      Line("blank", "", <<>>)>>
    \o (IF numeric # <<>>
        THEN <<Line("numeric_header", "", <<>>)>>
             \o SummaryLines(numeric, stats, 1)
             \o <<Line("blank", "", <<>>)>>
        ELSE <<Line("no_numeric", "", <<>>), Line("blank", "", <<>>)>>)
    \o (IF TruthyStr(ccol) /\ ctop # None
        THEN <<Line("most_frequent", ccol[1], ctop[1]), Line("blank", "", <<>>)>>
        ELSE IF TruthyStr(ccol)
        THEN <<Line("no_frequent", ccol[1], <<>>), Line("blank", "", <<>>)>>
        ELSE <<>>)
    \o (IF miss # <<>>
        THEN <<Line("missing_header", "", <<>>)>> \o MissingLines(miss)
             \o <<Line("blank", "", <<>>)>>
        ELSE <<>>)
    \o <<Line("notes", "", <<>>)>>
    \o (IF numeric # <<>> THEN <<Line("note_spread", "", <<>>)>> ELSE <<>>)
    \o (IF TruthyStr(ccol) /\ ctop # None
        THEN <<Line("note_dominant", ccol[1], <<ctop[1][1]>>)>> ELSE <<>>)
    \o (IF miss = <<>> THEN <<Line("note_no_missing", "", <<>>)>> ELSE <<>>)
    \o <<Line("divider", "", <<>>)>>

(***************************************************************************)
(* The files.                                                              *)
(***************************************************************************)
\* the rows a file with c columns may hold: fewer fields than the header,
\* as many, or one more
RawRows(c) ==
    UNION {[1..n -> FileCells] : n \in 0..c}
    \cup {Append(f, e) : f \in [1..c -> FileCells], e \in ExtraCells}

Cost(r) == IF Len(r) = 0 THEN 1 ELSE Len(r)

RECURSIVE RowSeqs(_, _)
RowSeqs(c, budget) ==
    {<<>>} \cup
    UNION {{<<r>> \o t : t \in RowSeqs(c, budget - Cost(r))} :
              r \in {x \in RawRows(c) : Cost(x) <= budget}}

NoFile == [exists |-> FALSE, header |-> <<>>, data |-> <<>>]

Files ==
    UNION {{[exists |-> TRUE, header |-> h, data |-> d] :
               d \in RowSeqs(Len(h), MaxFields)} : h \in Headers}

Absent == [exists |-> FALSE, data |-> <<>>]
OldReport == [exists |-> TRUE, data |-> <<Line("old", "", <<>>)>>]

\* the datasets of the function-level specification: every record holds
\* one string per column of the header
Datasets ==
    UNION {UNION {[1..n -> {[keys |-> h, vals |-> v, rest |-> <<>>] :
                               v \in [1..Len(h) -> Cells]}] :
                     n \in 0..(MaxFields \div Len(h))} : h \in Headers}

(***************************************************************************)
(* main                                                                    *)
(***************************************************************************)
NoCall == [fn |-> "none", col |-> "", res |-> <<>>]

Init ==
    /\ pc = "start"
    /\ csv \in Files \cup {NoFile}
    /\ outFile \in {Absent, OldReport}
    /\ outBefore = outFile
    /\ console = <<>>
    /\ rows = <<>>
    /\ numeric_cols = <<>>
    /\ stats_map = <<>>
    /\ cat_col = None
    /\ cat_top = None
    /\ missing = <<>>
    /\ lines = <<>>
    /\ call = NoCall

\* main without the test of os.path.exists
CheckExists_NoTest ==
    /\ pc = "start"
    /\ console' = console
    /\ pc' = "load"
    /\ UNCHANGED <<csv, outFile, outBefore, rows, numeric_cols, stats_map,
                   cat_col, cat_top, missing, lines, call>>

\* if not os.path.exists(csv_path): print(...); return
CheckExists ==
    /\ pc = "start"
    /\ IF ~csv.exists
       THEN /\ console' = Append(console, <<"File not found">>)
            /\ pc' = "exit"
       ELSE /\ console' = console
            /\ pc' = "load"
    /\ UNCHANGED <<csv, outFile, outBefore, rows, numeric_cols, stats_map,
                   cat_col, cat_top, missing, lines, call>>

\* rows = load_csv(csv_path); print(f"Loaded {len(rows)} rows.")
\* open() succeeds only on a file that exists
LoadCsv ==
    /\ pc = "load"
    /\ csv.exists
    /\ rows' = load_csv(csv)
    /\ console' = Append(console, <<"Loaded", Len(rows')>>)
    /\ pc' = "detect"
    /\ UNCHANGED <<csv, outFile, outBefore, numeric_cols, stats_map,
                   cat_col, cat_top, missing, lines, call>>

\* open() or the read raises OSError, which main does not catch
LoadFail ==
    /\ pc = "load"
    /\ pc' = "read_failed"
    /\ UNCHANGED <<csv, outFile, outBefore, console, rows, numeric_cols,
                   stats_map, cat_col, cat_top, missing, lines, call>>

\* numeric_cols = detect_numeric_columns(rows)
Detect ==
    /\ pc = "detect"
    /\ LET res == detect_numeric_columns(rows)
       IN  IF res.raised
           THEN /\ pc' = "raised"
                /\ numeric_cols' = numeric_cols
           ELSE /\ pc' = "stats"
                /\ numeric_cols' = res.val
    /\ UNCHANGED <<csv, outFile, outBefore, console, rows, stats_map,
                   cat_col, cat_top, missing, lines, call>>

\* the loop of main without the test "if s"
RECURSIVE StatsLoop_KeepNone(_, _, _, _)
StatsLoop_KeepNone(rs, numeric, j, out) ==
    IF j > Len(numeric) THEN Ret(out)
    ELSE LET s == basic_stats(rs, numeric[j])
         IN  IF s.raised THEN Raise
             ELSE StatsLoop_KeepNone(rs, numeric, j + 1,
                                     DictSet(out, numeric[j], s.val))

\* for c in numeric_cols: s = basic_stats(rows, c); if s: stats_map[c] = s
RECURSIVE StatsLoop(_, _, _, _)
StatsLoop(rs, numeric, j, out) ==
    IF j > Len(numeric) THEN Ret(out)
    ELSE LET s == basic_stats(rs, numeric[j])
         IN  IF s.raised THEN Raise
             ELSE StatsLoop(rs, numeric, j + 1,
                     IF s.val # None THEN DictSet(out, numeric[j], s.val) ELSE out)

Stats ==
    /\ pc = "stats"
    /\ LET res == StatsLoop(rows, numeric_cols, 1, <<>>)
       IN  IF res.raised
           THEN /\ pc' = "raised"
                /\ stats_map' = stats_map
           ELSE /\ pc' = "categorical"
                /\ stats_map' = res.val
    /\ UNCHANGED <<csv, outFile, outBefore, console, rows, numeric_cols,
                   cat_col, cat_top, missing, lines, call>>

\* cat_col = first_categorical_column(rows, numeric_cols)
\* cat_top = most_frequent(rows, cat_col) if cat_col else None
Categorical ==
    /\ pc = "categorical"
    /\ LET cc == first_categorical_column(rows, numeric_cols)
           top == IF TruthyStr(cc) THEN most_frequent(rows, cc[1]) ELSE Ret(None)
       IN  IF top.raised
           THEN /\ pc' = "raised"
                /\ cat_col' = cc
                /\ cat_top' = cat_top
           ELSE /\ pc' = "missing"
                /\ cat_col' = cc
                /\ cat_top' = top.val
    /\ UNCHANGED <<csv, outFile, outBefore, console, rows, numeric_cols,
                   stats_map, missing, lines, call>>

\* missing = missing_values(rows)
Missing ==
    /\ pc = "missing"
    /\ LET res == missing_values(rows)
       IN  IF res.raised
           THEN /\ pc' = "raised"
                /\ missing' = missing
           ELSE /\ pc' = "report"
                /\ missing' = res.val
    /\ UNCHANGED <<csv, outFile, outBefore, console, rows, numeric_cols,
                   stats_map, cat_col, cat_top, lines, call>>

\* write_report up to and including open(out_path, "w"), which creates the
\* file or truncates it
WriteReportOpen ==
    /\ pc = "report"
    /\ lines' = ReportLines("sales_data.csv", Len(rows), numeric_cols,
                            stats_map, cat_col, cat_top, missing)
    /\ outFile' = [exists |-> TRUE, data |-> <<>>]
    /\ pc' = "write"
    /\ UNCHANGED <<csv, outBefore, console, rows, numeric_cols, stats_map,
                   cat_col, cat_top, missing, call>>

\* open(out_path, "w") raises OSError
WriteReportOpenFail ==
    /\ pc = "report"
    /\ lines' = ReportLines("sales_data.csv", Len(rows), numeric_cols,
                            stats_map, cat_col, cat_top, missing)
    /\ pc' = "write_failed"
    /\ UNCHANGED <<csv, outFile, outBefore, console, rows, numeric_cols,
                   stats_map, cat_col, cat_top, missing, call>>

\* f.write("\n".join(lines)) and the close of the file
WriteReportWrite ==
    /\ pc = "write"
    /\ outFile' = [exists |-> TRUE, data |-> lines]
    /\ pc' = "print"
    /\ UNCHANGED <<csv, outBefore, console, rows, numeric_cols, stats_map,
                   cat_col, cat_top, missing, lines, call>>

\* the write or the flush on close raises OSError after k lines reached
\* the file
WriteReportWriteFail ==
    /\ pc = "write"
    /\ \E k \in 0..(Len(lines) - 1) :
          outFile' = [exists |-> TRUE, data |-> SubSeq(lines, 1, k)]
    /\ pc' = "write_failed"
    /\ UNCHANGED <<csv, outBefore, console, rows, numeric_cols, stats_map,
                   cat_col, cat_top, missing, lines, call>>

\* print(f"Report written to: {out_path}")
PrintWritten ==
    /\ pc = "print"
    /\ console' = Append(console, <<"Report written">>)
    /\ pc' = "exit"
    /\ UNCHANGED <<csv, outFile, outBefore, rows, numeric_cols, stats_map,
                   cat_col, cat_top, missing, lines, call>>

Next ==
    \/ CheckExists
    \/ LoadCsv
    \/ LoadFail
    \/ Detect
    \/ Stats
    \/ Categorical
    \/ Missing
    \/ WriteReportOpen
    \/ WriteReportOpenFail
    \/ WriteReportWrite
    \/ WriteReportWriteFail
    \/ PrintWritten

Spec == Init /\ [][Next]_vars

(***************************************************************************)
(* The functions called one at a time on a dataset.                        *)
(***************************************************************************)
InitFn ==
    /\ pc = "call"
    /\ csv = NoFile
    /\ outFile = Absent
    /\ outBefore = Absent
    /\ console = <<>>
    /\ rows \in Datasets
    /\ numeric_cols = <<>>
    /\ stats_map = <<>>
    /\ cat_col = None
    /\ cat_top = None
    /\ missing = <<>>
    /\ lines = <<>>
    /\ call = NoCall

\* the columns of the dataset
Columns(rs) == IF rs = <<>> THEN {} ELSE {rs[1].keys[j] : j \in 1..Len(rs[1].keys)}

\* numeric = detect_numeric_columns(rows)
CallDetect ==
    /\ pc = "call"
    /\ pc' = "returned"
    /\ call' = [fn |-> "detect_numeric_columns", col |-> "",
                res |-> detect_numeric_columns(rows)]
    /\ UNCHANGED <<csv, outFile, outBefore, console, rows, numeric_cols,
                   stats_map, cat_col, cat_top, missing, lines>>

\* s = basic_stats(rows, c)
CallBasicStats ==
    /\ pc = "call"
    /\ pc' = "returned"
    /\ \E c \in Columns(rows) :
          call' = [fn |-> "basic_stats", col |-> c, res |-> basic_stats(rows, c)]
    /\ UNCHANGED <<csv, outFile, outBefore, console, rows, numeric_cols,
                   stats_map, cat_col, cat_top, missing, lines>>

\* missing = missing_values(rows)
CallMissing ==
    /\ pc = "call"
    /\ pc' = "returned"
    /\ call' = [fn |-> "missing_values", col |-> "", res |-> missing_values(rows)]
    /\ UNCHANGED <<csv, outFile, outBefore, console, rows, numeric_cols,
                   stats_map, cat_col, cat_top, missing, lines>>

\* cat_col = first_categorical_column(rows, detect_numeric_columns(rows))
CallFirstCategorical ==
    /\ pc = "call"
    /\ pc' = "returned"
    /\ call' = [fn |-> "first_categorical_column", col |-> "",
                res |-> Ret(first_categorical_column(
                               rows, detect_numeric_columns(rows).val))]
    /\ UNCHANGED <<csv, outFile, outBefore, console, rows, numeric_cols,
                   stats_map, cat_col, cat_top, missing, lines>>

\* top = most_frequent(rows, c)
CallMostFrequent ==
    /\ pc = "call"
    /\ pc' = "returned"
    /\ \E c \in Columns(rows) :
          call' = [fn |-> "most_frequent", col |-> c, res |-> most_frequent(rows, c)]
    /\ UNCHANGED <<csv, outFile, outBefore, console, rows, numeric_cols,
                   stats_map, cat_col, cat_top, missing, lines>>

NextFn ==
    \/ CallDetect
    \/ CallBasicStats
    \/ CallMissing
    \/ CallFirstCategorical
    \/ CallMostFrequent

SpecFn == InitFn /\ [][NextFn]_vars

(***************************************************************************)
(* Properties.                                                             *)
(***************************************************************************)
\* the cell of record r in column c
CellAt(r, c) == r.vals[IndexOf(r.keys, c)]

\* the empty string
IsEmptyStr(s) == s = <<>>

\* the empty string or a string of whitespace only
IsBlankStr(s) == \A i \in 1..Len(s) : s[i] \in Whitespace

Identity(s) == s

\* the header's columns, in header order, whose cells are all empty (in the
\* sense of IsEmpty) or parse as a float
ExpectedNumeric(rs, IsEmpty(_)) ==
    IF rs = <<>> THEN <<>>
    ELSE LET Test(c) == \A i \in 1..Len(rs) :
                            \/ IsEmpty(CellAt(rs[i], c))
                            \/ float_ok(CellAt(rs[i], c))
         IN  SelectSeq(rs[1].keys, Test)

NumericResultIs(IsEmpty(_)) ==
    call.fn = "detect_numeric_columns" =>
        /\ ~call.res.raised
        /\ call.res.val = ExpectedNumeric(rows, IsEmpty)

\* C1 as stated: detect_numeric_columns returns, in header order, exactly
\* the columns in which every cell that is not the empty string parses as a
\* float; the empty dataset gives the empty list.
C1_NumericIffNonEmptyCellsParse == NumericResultIs(IsEmptyStr)

\* C1, amended: detect_numeric_columns returns, in header order, exactly the
\* columns in which every cell that is neither empty nor whitespace only
\* parses as a float; the empty dataset gives the empty list.
C1_NumericIffNonBlankCellsParse == NumericResultIs(IsBlankStr)

\* a column holding a whitespace-only cell was classified numeric while
\* another column was not
C1_Witness ==
    /\ call.fn = "detect_numeric_columns"
    /\ Len(rows) >= 2
    /\ \E c \in Columns(rows) :
          /\ InSeq(call.res.val, c)
          /\ \E i \in 1..Len(rows) : CellAt(rows[i], c) = <<" ">>
          /\ \E i \in 1..Len(rows) : CellAt(rows[i], c) = <<"1">>
    /\ \E c \in Columns(rows) : ~InSeq(call.res.val, c)

\* the rows whose cell in column c is empty in the sense of IsEmpty
EmptyRows(rs, c, IsEmpty(_)) == {i \in 1..Len(rs) : IsEmpty(CellAt(rs[i], c))}

MissingResultIs(IsEmpty(_)) ==
    call.fn = "missing_values" =>
        LET m == call.res.val
        IN  /\ ~call.res.raised
            /\ \A c \in Columns(rows) :
                  DictHas(m, c) <=> EmptyRows(rows, c, IsEmpty) # {}
            /\ \A i \in 1..Len(m) :
                  /\ m[i][1] \in Columns(rows)
                  /\ m[i][2] = Cardinality(EmptyRows(rows, m[i][1], IsEmpty))
                  /\ m[i][2] > 0
                  /\ \A j \in 1..Len(m) : m[j][1] = m[i][1] => j = i
            /\ (rows = <<>> => m = <<>>)

\* C3 as stated: the mapping of missing_values holds a column iff some row
\* has the empty string in it, with the number of such rows as its value,
\* never 0; the empty dataset gives the empty mapping.
C3_MissingCountsEmptyCells == MissingResultIs(IsEmptyStr)

\* C3, amended: the mapping of missing_values holds a column iff some row
\* has an empty or whitespace-only cell in it, with the number of such rows
\* as its value, never 0; the empty dataset gives the empty mapping.
C3_MissingCountsBlankCells == MissingResultIs(IsBlankStr)

\* a mapping with an entry of 2 for one column and no entry for another
C3_Witness ==
    /\ call.fn = "missing_values"
    /\ \E i \in 1..Len(call.res.val) : call.res.val[i][2] = 2
    /\ \E c \in Columns(rows) : ~DictHas(call.res.val, c)

\* the result of most_frequent for column call.col against the values
\* Val(cell) of the cells that are not empty in the sense of IsEmpty
MostFrequentResultIs(IsEmpty(_), Val(_)) ==
    call.fn = "most_frequent" =>
        LET c == call.col
            top == call.res.val
            Used == {i \in 1..Len(rows) : ~IsEmpty(CellAt(rows[i], c))}
            ValAt(i) == Val(CellAt(rows[i], c))
            Count(v) == Cardinality({i \in Used : ValAt(i) = v})
            First(v) == CHOOSE i \in Used :
                           /\ ValAt(i) = v
                           /\ \A k \in Used : ValAt(k) = v => i <= k
        IN  /\ ~call.res.raised
            /\ top = None <=> Used = {}
            /\ top # None =>
                  LET v == top[1][1]
                      n == top[1][2]
                  IN  /\ n = Cardinality({i \in 1..Len(rows) : ValAt(i) = v})
                      /\ n >= 1
                      /\ \A i \in Used :
                            /\ Count(ValAt(i)) <= n
                            /\ Count(ValAt(i)) = n => First(v) <= i

\* C4 as stated: most_frequent returns nothing iff the column has no
\* non-empty cell; otherwise (v, n) with n the number of rows whose cell
\* equals v, n at least the count of every other non-empty value, and v the
\* tied value that occurs first in record order.
C4_MostFrequentOfCells == MostFrequentResultIs(IsEmptyStr, Identity)

\* C4, amended: the same with every cell taken after stripping its
\* surrounding whitespace: nothing iff every cell is empty or whitespace
\* only; n is the number of rows whose stripped cell equals v.
C4_MostFrequentOfStrippedCells == MostFrequentResultIs(IsBlankStr, strip)

\* a tie between two values, settled for the one seen first, which is not
\* the smallest value
C4_Witness ==
    /\ call.fn = "most_frequent"
    /\ Len(rows) >= 2
    /\ strip(CellAt(rows[1], call.col)) = <<"x">>
    /\ CellAt(rows[2], call.col) = <<"1">>
    /\ call.res.val = Some(<<(<<"x">>), 1>>)

\* C2: for a column that detect_numeric_columns returns and for which
\* basic_stats returns a result, the count of the result is the number of
\* rows minus the number missing_values reports for the column (0 when the
\* column has no entry).
C2_CountIsRowsMinusMissing ==
    (/\ call.fn = "basic_stats"
     /\ InSeq(detect_numeric_columns(rows).val, call.col)
     /\ call.res.val # None)
    => call.res.val[1].count
          = Len(rows) - DictGet(missing_values(rows).val, call.col, 0)

\* statistics of a numeric column with values and with missing rows
C2_Witness ==
    /\ call.fn = "basic_stats"
    /\ InSeq(detect_numeric_columns(rows).val, call.col)
    /\ call.res.val # None
    /\ call.res.val[1].count = 2
    /\ DictGet(missing_values(rows).val, call.col, 0) = 1

(***************************************************************************)
(* Properties of main.                                                     *)
(***************************************************************************)
AfterDetect ==
    pc \in {"stats", "categorical", "missing", "report", "write", "print",
            "exit", "write_failed"}

AfterStats ==
    pc \in {"categorical", "missing", "report", "write", "print", "exit",
            "write_failed"}

Ended == pc \in {"exit", "raised", "read_failed", "write_failed"}

CategoricalKinds == {"most_frequent", "no_frequent", "note_dominant"}

HasKind(ls, kinds) == \E i \in 1..Len(ls) : ls[i].k \in kinds

\* C5: when every column of the header is classified numeric, or there is
\* no row, the report has no "Most frequent value" line, no "No frequent
\* value computed" line and no dominant-category note.
C5_NoCategoricalSection ==
    (/\ lines # <<>>
     /\ \/ rows = <<>>
        \/ \A c \in Columns(rows) : InSeq(numeric_cols, c))
    => /\ ~HasKind(lines, CategoricalKinds)
       /\ ~HasKind(outFile.data, CategoricalKinds)

\* a report written for a dataset of two columns, both numeric
C5_Witness ==
    /\ pc = "exit"
    /\ rows # <<>>
    /\ Len(rows[1].keys) = 2
    /\ \A c \in Columns(rows) : InSeq(numeric_cols, c)
    /\ \E c \in Columns(rows) : DictHas(stats_map, c)
    /\ outFile.data = lines

\* C6: when the input file does not exist, the run prints the single
\* "File not found" message and ends; it never loads data, prints the
\* "Loaded" or "Report written" line, or touches the output file.
C6_MissingInputOnlyReports ==
    ~csv.exists =>
        /\ pc \in {"start", "exit"}
        /\ pc = "start" => console = <<>>
        /\ pc = "exit" => console = << <<"File not found">> >>
        /\ outFile = outBefore
        /\ rows = <<>>
        /\ lines = <<>>

\* the run ended on a missing input file, with an earlier report in place
C6_Witness ==
    /\ ~csv.exists
    /\ pc = "exit"
    /\ outBefore = OldReport

\* C7: rows with fewer or more fields than the header are tolerated: the
\* records hold the empty string for the fields a row lacks, and no stage of
\* the pipeline raises.
C7_MalformedRowsTolerated ==
    (\E i \in 1..Len(csv.data) : Len(csv.data[i]) # Len(csv.header))
    => /\ pc # "raised"
       /\ \A i \in 1..Len(rows) :
             \A j \in 1..Len(rows[i].keys) : rows[i].vals[j] \in FileCells

\* C8: at the end of every run the output file holds the complete report
\* or is as it was before the run.
C8_ReportAllOrNothing ==
    Ended =>
        \/ outFile = outBefore
        \/ /\ lines # <<>>
           /\ outFile = [exists |-> TRUE, data |-> lines]

\* every record holds exactly the header's columns
IsDataset(rs) == \A i \in 1..Len(rs) : rs[i].rest = <<>>

AllEmptyColumn(rs, c) == \A i \in 1..Len(rs) : IsEmptyStr(CellAt(rs[i], c))

IsSummaryOf(l, c) == l.k = "summary" /\ l.col = c

\* C9: in a non-empty dataset, a column whose cells are all empty is
\* classified numeric, gets no entry in the stats map and no summary line
\* in the report, and no stage raises.
C9_AllEmptyColumnSkipped ==
    \A c \in Columns(rows) :
        (IsDataset(rows) /\ AllEmptyColumn(rows, c)) =>
            /\ pc # "raised"
            /\ AfterDetect => InSeq(numeric_cols, c)
            /\ AfterStats => ~DictHas(stats_map, c)
            /\ \A i \in 1..Len(lines) : ~IsSummaryOf(lines[i], c)
            /\ \A i \in 1..Len(outFile.data) : ~IsSummaryOf(outFile.data[i], c)

\* a report written for a dataset with an all-empty column beside a column
\* that has statistics
C9_Witness ==
    /\ pc = "exit"
    /\ outFile.data = lines
    /\ IsDataset(rows)
    /\ \E c \in Columns(rows) : AllEmptyColumn(rows, c)
    /\ \E c \in Columns(rows) : DictHas(stats_map, c)
    /\ HasKind(lines, {"summary"})

\* C10: whenever main has a categorical column it has a top value for it,
\* and the "No frequent value computed" line is never produced.
C10_CategoricalColumnHasTop ==
    /\ cat_col # None => cat_top # None
    /\ ~HasKind(lines, {"no_frequent"})

====
